---------------------------- MODULE Spec2Model ----------------------------
(***************************************************************************)
(* Schema normalization of realm-js (packages/realm/src/schema/normalize). *)
(*                                                                         *)
(* A JavaScript string is a sequence of one-character strings, so that     *)
(* substring, endsWith and length are computed as the code computes them:  *)
(* "int?[]" is <<"i","n","t","?","[","]">>.  A JavaScript object is a      *)
(* record whose domain holds exactly the keys that are defined; a key      *)
(* whose value is undefined is absent from the domain.                     *)
(***************************************************************************)
EXTENDS Integers, Sequences, FiniteSets, TLC

VARIABLES
    call,     \* the exported function that was last called ("none" at start)
    input,    \* the argument it was called with
    result,   \* what it returned, or the error it threw
    flags     \* the process-wide feature flags (ALLOW_VALUES_ARRAYS)

vars == <<call, input, result, flags>>

---------------------------------------------------------------------------
(* Strings                                                                 *)

Max(a, b) == IF a > b THEN a ELSE b
Min(a, b) == IF a < b THEN a ELSE b

\* String.prototype.substring(start, end): both indices are clamped to
\* [0, length] and swapped when start > end.
substring(s, start, end) ==
    LET a  == Min(Max(start, 0), Len(s))
        b  == Min(Max(end, 0), Len(s))
        lo == Min(a, b)
        hi == Max(a, b)
    IN  SubSeq(s, lo + 1, hi)

\* String.prototype.endsWith for a one-character search string.
endsWith(s, ch) == Len(s) > 0 /\ s[Len(s)] = ch

EmptyString == <<>>

\* The type names of the language.
TyBool       == <<"b","o","o","l">>
TyInt        == <<"i","n","t">>
TyFloat      == <<"f","l","o","a","t">>
TyDouble     == <<"d","o","u","b","l","e">>
TyDecimal128 == <<"d","e","c","i","m","a","l","1","2","8">>
TyObjectId   == <<"o","b","j","e","c","t","I","d">>
TyString     == <<"s","t","r","i","n","g">>
TyData       == <<"d","a","t","a">>
TyDate       == <<"d","a","t","e">>
TyMixed      == <<"m","i","x","e","d">>
TyUuid       == <<"u","u","i","d">>
TyList       == <<"l","i","s","t">>
TyDictionary == <<"d","i","c","t","i","o","n","a","r","y">>
TySet        == <<"s","e","t">>
TyObject     == <<"o","b","j","e","c","t">>
TyLinkingObjects == <<"l","i","n","k","i","n","g","O","b","j","e","c","t","s">>

PRIMITIVE_TYPES ==
    {TyBool, TyInt, TyFloat, TyDouble, TyDecimal128, TyObjectId, TyString, TyData, TyDate, TyMixed, TyUuid}

COLLECTION_TYPES == {TyList, TyDictionary, TySet}

\* The shorthand markers.
OptionalMarker == <<"?">>
ListSuffix     == <<"[","]">>
DictSuffix     == <<"{","}">>
SetSuffix      == <<"<",">">>

COLLECTION_SHORTHAND_TO_NAME ==
    [suffix \in {ListSuffix, DictSuffix, SetSuffix} |->
        IF suffix = ListSuffix THEN TyList
        ELSE IF suffix = DictSuffix THEN TyDictionary
        ELSE TySet]

\* An object's key that is defined.
Has(r, k) == k \in DOMAIN r

\* The object with no keys, and the object holding key k when cond holds.
NoKeys == [k \in {} |-> TRUE]
KeyIf(cond, k, v) == IF cond THEN [j \in {k} |-> v] ELSE NoKeys

---------------------------------------------------------------------------
(* Type classifier                                                         *)

\* The value undefined where the code holds `string | undefined`: a sequence
\* that is no string (its one element is not a character).
undefined == <<"undefined">>

\* r[k], or undefined when the key is not defined.
Get(r, k) == IF Has(r, k) THEN r[k] ELSE undefined

isPrimitive(type) == type \in PRIMITIVE_TYPES

isCollection(type) == type \in COLLECTION_TYPES

isUserDefined(type) ==
    /\ type # undefined /\ Len(type) > 0
    /\ ~(isPrimitive(type) \/ isCollection(type) \/ type = TyObject \/ type = TyLinkingObjects)

\* Whether a string ends with a shorthand collection ('[]', '{}' or '<>').
hasCollectionSuffix(str) ==
    LET end == substring(str, Len(str) - 2, Len(str))
    IN  end \in DOMAIN COLLECTION_SHORTHAND_TO_NAME

---------------------------------------------------------------------------
(* Implicit optionality                                                    *)

optionalIsImplicitlyTrue(type, objectType) ==
    \/ type = TyMixed
    \/ objectType = TyMixed
    \/ type = TyObject
    \/ (type = TyDictionary /\ isUserDefined(objectType))

\* A predicate that takes every collection of a user-defined type.
optionalIsImplicitlyFalseAnyCollection(type, objectType) ==
    (isCollection(type) \/ type = TyLinkingObjects) /\ isUserDefined(objectType)

optionalIsImplicitlyFalse(type, objectType) ==
    (type = TyList \/ type = TySet \/ type = TyLinkingObjects) /\ isUserDefined(objectType)

---------------------------------------------------------------------------
(* Outcomes: a returned value, or the error that was thrown                *)

Return(v) == [ok |-> TRUE, value |-> v]

Throw(e) == [ok |-> FALSE, error |-> e]

\* new PropertySchemaParseError(message, info)
PropertySchemaParseError(message, info) ==
    [class        |-> "PropertySchemaParseError",
     message      |-> message,
     objectName   |-> info.objectName,
     propertyName |-> info.propertyName]

\* new ObjectSchemaParseError(message, { objectName })
ObjectSchemaParseError(message, objectName) ==
    [class |-> "ObjectSchemaParseError", message |-> message, objectName |-> objectName]

propError(info, message) == Throw(PropertySchemaParseError(message, info))

objectError(objectName, message) == Throw(ObjectSchemaParseError(message, objectName))

---------------------------------------------------------------------------
(* Property normalizer: shorthand notation                                 *)

\* The error messages (the interpolated parts are left out).
MsgTypeMissing        == "The type must be specified."
MsgElementMissing     == "The element type must be specified"
MsgNested             == "Nested collections are not supported."
MsgTypeMissingOpt     == "The type must be specified. (Examples: 'int?' and 'int?[]')"
MsgOptionalCollection == "Collections cannot be optional."
MsgCollectionName     == "Cannot use the collection name"
MsgUseRelationship    == "To define a relationship, use either 'MyObjectType' or { type: 'object', objectType: 'MyObjectType' }"
MsgUseInverse         == "To define an inverse relationship, use { type: 'linkingObjects', ... }"
MsgShorthandNonOptional == "User-defined types in lists and sets are always non-optional and cannot be made optional. Remove '?' or change the type."

\* A normalizer that forgets which property is the primary key.
isPrimaryKeyIgnored(info) == FALSE

isPrimaryKey(info) == Has(info, "isPrimaryKey") /\ info.isPrimaryKey

\* A shorthand normalizer that corrects a contradicting '?' silently.
finishShorthandSilent(info, type, objectType, optional) ==
    Return([name     |-> info.propertyName,
            type     |-> type,
            optional |-> IF optionalIsImplicitlyTrue(type, objectType) THEN TRUE
                         ELSE IF optionalIsImplicitlyFalse(type, objectType) THEN FALSE
                         ELSE optional,
            indexed  |-> isPrimaryKey(info),
            mapTo    |-> info.propertyName]
           @@ KeyIf(objectType # undefined, "objectType", objectType))

\* Lines 248-271: the implicit optionality and the canonical record, from
\* the type, objectType and optional the parse has left.
finishShorthand(info, type, objectType, optional) ==
    IF ~optionalIsImplicitlyTrue(type, objectType)
       /\ optionalIsImplicitlyFalse(type, objectType) /\ optional
    THEN propError(info, MsgShorthandNonOptional)
    ELSE LET opt == IF optionalIsImplicitlyTrue(type, objectType) THEN TRUE
                    ELSE IF optionalIsImplicitlyFalse(type, objectType) THEN FALSE
                    ELSE optional
         IN  Return([name     |-> info.propertyName,
                     type     |-> type,
                     optional |-> opt,
                     indexed  |-> isPrimaryKey(info),
                     mapTo    |-> info.propertyName]
                    @@ KeyIf(objectType # undefined, "objectType", objectType))

normalizePropertySchemaShorthand(info) ==
    LET s0       == info.propertySchema.shorthand
        isColl   == hasCollectionSuffix(s0)
        suffix   == substring(s0, Len(s0) - 2, Len(s0))
        collType == IF isColl THEN COLLECTION_SHORTHAND_TO_NAME[suffix] ELSE EmptyString
        s1       == IF isColl THEN substring(s0, 0, Len(s0) - 2) ELSE s0
        isOpt    == endsWith(s1, "?")
        s2       == IF isOpt THEN substring(s1, 0, Len(s1) - 1) ELSE s1
    IN  IF ~(Len(s0) > 0) THEN propError(info, MsgTypeMissing)
        ELSE IF isColl /\ ~(Len(s1) > 0) THEN propError(info, MsgElementMissing)
        ELSE IF isColl /\ hasCollectionSuffix(s1) THEN propError(info, MsgNested)
        ELSE IF isOpt /\ ~(Len(s2) > 0) THEN propError(info, MsgTypeMissingOpt)
        ELSE IF isOpt /\ hasCollectionSuffix(s2) THEN propError(info, MsgOptionalCollection)
        ELSE IF isPrimitive(s2)
             THEN IF isCollection(collType)
                  THEN finishShorthand(info, collType, s2, isOpt)
                  ELSE finishShorthand(info, s2, undefined, isOpt)
        ELSE IF isCollection(s2) THEN propError(info, MsgCollectionName)
        ELSE IF s2 = TyObject THEN propError(info, MsgUseRelationship)
        ELSE IF s2 = TyLinkingObjects THEN propError(info, MsgUseInverse)
        ELSE finishShorthand(info, IF isCollection(collType) THEN collType ELSE TyObject,
                             s2, isOpt)

---------------------------------------------------------------------------
(* Property normalizer: explicit object notation                           *)

MsgTypeEmpty          == "'type' must be specified."
MsgShorthandInObject  == "Cannot use shorthand in 'type' or 'objectType' when defining property objects."
MsgObjectTypeOnPrimitive == "'objectType' cannot be defined when 'type' is primitive."
MsgCollectionElement  == "A collection must contain only primitive or user-defined types specified through 'objectType'."
MsgUserDefinedNeeded  == "A user-defined type must be specified through 'objectType'."
MsgPropertyNeeded     == "The linking object's property name must be specified through 'property'."
MsgUserDefinedAsType  == "If you meant to define a relationship, use { type: 'object', ... } or { type: 'linkingObjects', ... }"
MsgPropertyNotAllowed == "'property' can only be specified if 'type' is 'linkingObjects'."
MsgAlwaysOptional     == "are always optional and cannot be made non-optional."
MsgAlwaysNonOptional  == "User-defined types in lists and sets are always non-optional and cannot be made optional."
MsgPrimaryKeyIndexed  == "Primary keys must always be indexed."

\* The list `shorthands` that assertNotUsingShorthand collects from its input.
shorthandsIn(str) ==
    LET truthy == str # undefined /\ Len(str) > 0
        isColl == truthy /\ hasCollectionSuffix(str)
        first  == IF isColl THEN <<substring(str, Len(str) - 2, Len(str))>> ELSE <<>>
        rest   == IF isColl THEN substring(str, 0, Len(str) - 2) ELSE str
        isOpt  == rest # undefined /\ endsWith(rest, "?")
    IN  first \o (IF isOpt THEN <<OptionalMarker>> ELSE <<>>)

\* Whether assertNotUsingShorthand(str, info) passes.
notUsingShorthand(str) == Len(shorthandsIn(str)) = 0

\* Category rules that do not ask a linkingObjects for its `property`.
categoryErrorPropertyNotAsked(type, objectType, property) ==
    IF isPrimitive(type)
    THEN IF objectType = undefined THEN "" ELSE MsgObjectTypeOnPrimitive
    ELSE IF isCollection(type)
    THEN IF isPrimitive(objectType) \/ isUserDefined(objectType) THEN ""
         ELSE MsgCollectionElement
    ELSE IF type = TyObject \/ type = TyLinkingObjects
    THEN IF isUserDefined(objectType) THEN "" ELSE MsgUserDefinedNeeded
    ELSE MsgUserDefinedAsType

\* Lines 288-306: the message of the category rule that `type` breaks, or
\* "" when it breaks none.
categoryError(type, objectType, property) ==
    IF isPrimitive(type)
    THEN IF objectType = undefined THEN "" ELSE MsgObjectTypeOnPrimitive
    ELSE IF isCollection(type)
    THEN IF isPrimitive(objectType) \/ isUserDefined(objectType) THEN ""
         ELSE MsgCollectionElement
    ELSE IF type = TyObject
    THEN IF isUserDefined(objectType) THEN "" ELSE MsgUserDefinedNeeded
    ELSE IF type = TyLinkingObjects
    THEN IF ~isUserDefined(objectType) THEN MsgUserDefinedNeeded
         ELSE IF ~(property # undefined /\ Len(property) > 0) THEN MsgPropertyNeeded
         ELSE ""
    ELSE MsgUserDefinedAsType

normalizePropertySchemaObject(info) ==
    LET propertySchema == info.propertySchema
        type        == propertySchema.type
        objectType  == Get(propertySchema, "objectType")
        property    == Get(propertySchema, "property")
        optFalse    == Has(propertySchema, "optional") /\ propertySchema.optional = FALSE
        optTrue     == Has(propertySchema, "optional") /\ propertySchema.optional = TRUE
        idxFalse    == Has(propertySchema, "indexed") /\ propertySchema.indexed = FALSE
        idxTrue     == Has(propertySchema, "indexed") /\ propertySchema.indexed = TRUE
        implTrue    == optionalIsImplicitlyTrue(type, objectType)
        implFalse   == ~implTrue /\ optionalIsImplicitlyFalse(type, objectType)
        optional    == IF implTrue THEN TRUE ELSE IF implFalse THEN FALSE ELSE optTrue
        indexed     == IF isPrimaryKey(info) THEN TRUE ELSE idxTrue
        mapTo       == IF Has(propertySchema, "mapTo") /\ Len(propertySchema.mapTo) > 0
                       THEN propertySchema.mapTo ELSE info.propertyName
    IN  IF ~(Len(type) > 0) THEN propError(info, MsgTypeEmpty)
        ELSE IF ~notUsingShorthand(type) THEN propError(info, MsgShorthandInObject)
        ELSE IF ~notUsingShorthand(objectType) THEN propError(info, MsgShorthandInObject)
        ELSE IF categoryError(type, objectType, property) # ""
             THEN propError(info, categoryError(type, objectType, property))
        ELSE IF type # TyLinkingObjects /\ property # undefined
             THEN propError(info, MsgPropertyNotAllowed)
        ELSE IF implTrue /\ optFalse THEN propError(info, MsgAlwaysOptional)
        ELSE IF implFalse /\ optTrue THEN propError(info, MsgAlwaysNonOptional)
        ELSE IF isPrimaryKey(info) /\ idxFalse THEN propError(info, MsgPrimaryKeyIndexed)
        ELSE Return([name     |-> info.propertyName,
                     type     |-> type,
                     optional |-> optional,
                     indexed  |-> indexed,
                     mapTo    |-> mapTo]
                    @@ KeyIf(objectType # undefined, "objectType", objectType)
                    @@ KeyIf(property # undefined, "property", property)
                    @@ KeyIf(Has(propertySchema, "default"), "default",
                             Get(propertySchema, "default")))

\* typeof info.propertySchema === "string": a shorthand string is held as
\* [shorthand |-> string], an explicit definition as the record of its keys.
isUsingShorthand(info) == Has(info.propertySchema, "shorthand")

normalizePropertySchema(info) ==
    IF isUsingShorthand(info)
    THEN normalizePropertySchemaShorthand(info)
    ELSE normalizePropertySchemaObject(info)

---------------------------------------------------------------------------
(* Object normalizer                                                       *)

MsgNoStaticSchema  == "A static schema must be specified on this class."
MsgArrayProperties == "Array of properties are no longer supported. Use an object instead."
MsgNameMissing     == "'name' must be specified."
MsgPrimaryKeyMissing == "is set as the primary key field but was not found in 'properties'."
MsgAsymmetricEmbedded == "Cannot be both asymmetric and embedded."

\* new SchemaParseError(message) and new Error(message)
SchemaParseError(message) == [class |-> "SchemaParseError", message |-> message]
PlainError(message)       == [class |-> "Error", message |-> message]

\* A properties object is [entries |-> <<key, value>> pairs in for-in order,
\* keys distinct]; an array of properties is [array |-> its elements].  The
\* keys of the model are not integer-like, so for-in order is the order in
\* which the keys were written.
ArrayIsArray(properties) == Has(properties, "array")

hasOwnProperty(properties, key) ==
    \E i \in 1..Len(properties.entries) : properties.entries[i][1] = key

\* The record r without key k ({ name, ...rest } leaves rest).
Without(r, k) == [j \in DOMAIN r \ {k} |-> r[j]]

\* Object.fromEntries: a later entry of a key that is already there replaces
\* the value and keeps the key's place.
RECURSIVE fromEntries(_)
fromEntries(pairs) ==
    IF Len(pairs) = 0 THEN <<>>
    ELSE LET init == fromEntries(SubSeq(pairs, 1, Len(pairs) - 1))
             last == pairs[Len(pairs)]
         IN  IF \E i \in 1..Len(init) : init[i][1] = last[1]
             THEN [i \in 1..Len(init) |->
                      IF init[i][1] = last[1] THEN last ELSE init[i]]
             ELSE Append(init, last)

\* A rewrite of the array that turns the order of its entries around.
nameRestPairsReversed(array) ==
    [i \in 1..Len(array) |->
        <<array[Len(array) + 1 - i].name, Without(array[Len(array) + 1 - i], "name")>>]

\* arg.properties.map(({ name, ...rest }) => [name, rest])
nameRestPairs(array) ==
    [i \in 1..Len(array) |-> <<array[i].name, Without(array[i], "name")>>]

\* The loop of normalizePropertySchemas over entries[from..]: the first
\* error is thrown, otherwise the canonical entries are appended to done.
RECURSIVE normalizeEntries(_, _, _, _, _)
normalizeEntries(objectName, entries, primaryKey, from, done) ==
    IF from > Len(entries) THEN Return([entries |-> done])
    ELSE LET propertyName == entries[from][1]
             r == normalizePropertySchema(
                      [objectName     |-> objectName,
                       propertyName   |-> propertyName,
                       propertySchema |-> entries[from][2],
                       isPrimaryKey   |-> (primaryKey = propertyName)])
         IN  IF ~r.ok THEN r
             ELSE normalizeEntries(objectName, entries, primaryKey, from + 1,
                                   Append(done, <<propertyName, r.value>>))

normalizePropertySchemas(objectName, propertiesSchemas, primaryKey) ==
    normalizeEntries(objectName, propertiesSchemas.entries, primaryKey, 1, <<>>)

\* typeof arg === "function": a class is held as [prototype |-> its identity]
\* with the static `schema` key when the class declares one.
isFunction(arg) == Has(arg, "prototype")

\* Lines 123-138, for an arg that is neither a class nor has an array.
normalizePlainObjectSchema(arg) ==
    LET name       == arg.name
        primaryKey == Get(arg, "primaryKey")
        asymmetric == Has(arg, "asymmetric") /\ arg.asymmetric
        embedded   == Has(arg, "embedded") /\ arg.embedded
        properties == arg.properties
        primaryKeyFieldIsMissing ==
            /\ primaryKey # undefined /\ Len(primaryKey) > 0
            /\ ~hasOwnProperty(properties, primaryKey)
        normalized == normalizePropertySchemas(name, properties, primaryKey)
    IN  IF ~(Len(name) > 0) THEN objectError(EmptyString, MsgNameMissing)
        ELSE IF primaryKeyFieldIsMissing THEN objectError(name, MsgPrimaryKeyMissing)
        ELSE IF asymmetric /\ embedded THEN objectError(name, MsgAsymmetricEmbedded)
        ELSE IF ~normalized.ok THEN normalized
        ELSE Return([name       |-> name,
                     asymmetric |-> asymmetric,
                     embedded   |-> embedded,
                     properties |-> normalized.value]
                    @@ KeyIf(primaryKey # undefined, "primaryKey", primaryKey))

RECURSIVE normalizeObjectSchemaWith(_, _)
normalizeObjectSchemaWith(fl, arg) ==
    IF isFunction(arg)
    THEN IF ~Has(arg, "schema") THEN Throw(SchemaParseError(MsgNoStaticSchema))
         ELSE LET objectSchema == normalizeObjectSchemaWith(fl, arg.schema)
              IN  IF ~objectSchema.ok THEN objectSchema
                  ELSE Return([ctor |-> arg] @@ objectSchema.value)
    ELSE IF ArrayIsArray(arg.properties)
    THEN IF fl.ALLOW_VALUES_ARRAYS
         THEN normalizeObjectSchemaWith(fl,
                  [properties |-> [entries |->
                       fromEntries(nameRestPairs(arg.properties.array))]] @@ arg)
         ELSE Throw(PlainError(MsgArrayProperties))
    ELSE normalizePlainObjectSchema(arg)

normalizeObjectSchema(arg) == normalizeObjectSchemaWith(flags, arg)

\* A map that goes on after an error and throws the last one.
mapNormalizeLastError(realmSchema, done) ==
    LET each   == [i \in 1..Len(realmSchema) |-> normalizeObjectSchema(realmSchema[i])]
        failed == {i \in 1..Len(realmSchema) : ~each[i].ok}
    IN  IF failed = {} THEN Return([i \in 1..Len(realmSchema) |-> each[i].value])
        ELSE each[CHOOSE i \in failed : \A j \in failed : j <= i]

\* realmSchema.map(normalizeObjectSchema): the first error is thrown.
RECURSIVE mapNormalize(_, _)
mapNormalize(realmSchema, done) ==
    IF Len(done) = Len(realmSchema) THEN Return(done)
    ELSE LET r == normalizeObjectSchema(realmSchema[Len(done) + 1])
         IN  IF ~r.ok THEN r ELSE mapNormalize(realmSchema, Append(done, r.value))

normalizeRealmSchema(realmSchema) == mapNormalize(realmSchema, <<>>)

---------------------------------------------------------------------------
(* The inputs the calls are made with                                      *)

\* The most shorthand markers that follow a type name in a shorthand string.
MaxMarkers == 4

\* The most entries of a properties object or array.
MaxProperties == 2

\* The most object definitions of a realm schema.
MaxObjects == 2

Markers == {OptionalMarker, ListSuffix, DictSuffix, SetSuffix}

\* Every arrangement of at most n markers, as one string.
RECURSIVE MarkerStrings(_)
MarkerStrings(n) ==
    IF n = 0 THEN {EmptyString}
    ELSE LET shorter == MarkerStrings(n - 1)
         IN  shorter \cup {s \o m : s \in shorter, m \in Markers}

UserTypeName == <<"D","o","g">>

TypeNames ==
    PRIMITIVE_TYPES \cup COLLECTION_TYPES \cup {TyObject, TyLinkingObjects, UserTypeName}

Shorthands == {b \o m : b \in TypeNames \cup {EmptyString}, m \in MarkerStrings(MaxMarkers)}

\* The partial objects over key k: the key absent, or holding a value of Vals.
Opt(k, Vals) == {NoKeys} \cup {[j \in {k} |-> v] : v \in Vals}

ExplicitTypes ==
    {EmptyString, TyInt, TyMixed, TyList, TyDictionary, TySet, TyObject,
     TyLinkingObjects, UserTypeName, TyInt \o OptionalMarker,
     UserTypeName \o ListSuffix, UserTypeName \o OptionalMarker \o SetSuffix}

ExplicitObjectTypes ==
    {EmptyString, TyInt, TyMixed, TyList, TyObject, TyLinkingObjects, UserTypeName,
     UserTypeName \o OptionalMarker, TyInt \o DictSuffix}

PropertyNameA == <<"a">>
PropertyNameB == <<"b">>
ColumnName    == <<"c","o","l">>
OwnerName     == <<"o","w","n","e","r">>
ObjectName    == <<"P","e","t">>

ExplicitSchemas ==
    {[type |-> t] @@ ot @@ p @@ o @@ i @@ m @@ d :
        t  \in ExplicitTypes,
        ot \in Opt("objectType", ExplicitObjectTypes),
        p  \in Opt("property", {EmptyString, OwnerName}),
        o  \in Opt("optional", BOOLEAN),
        i  \in Opt("indexed", BOOLEAN),
        m  \in Opt("mapTo", {EmptyString, ColumnName}),
        d  \in Opt("default", {0})}

ShorthandSchemas == {[shorthand |-> s] : s \in Shorthands}

PropertyInfos ==
    {[objectName |-> ObjectName, propertyName |-> PropertyNameA, propertySchema |-> ps] @@ pk :
        ps \in ShorthandSchemas \cup ExplicitSchemas,
        pk \in Opt("isPrimaryKey", BOOLEAN)}

\* The property definitions the object definitions are built from.
ObjectPropertySchemas ==
    {[shorthand |-> TyInt],
     [shorthand |-> TyInt \o OptionalMarker],
     [shorthand |-> TyInt \o OptionalMarker \o OptionalMarker],
     [shorthand |-> UserTypeName \o ListSuffix],
     [shorthand |-> EmptyString],
     [type |-> TyInt],
     [type |-> TyInt, indexed |-> FALSE],
     [type |-> TyString, indexed |-> TRUE, mapTo |-> ColumnName, default |-> 0],
     [type |-> TyLinkingObjects, objectType |-> UserTypeName, property |-> OwnerName],
     [type |-> TyDictionary, objectType |-> UserTypeName, optional |-> FALSE]}

PropertyNames == {EmptyString, PropertyNameA, PropertyNameB}

\* The sequences of at most n <<key, value>> entries with distinct keys.
RECURSIVE EntriesUpTo(_)
EntriesUpTo(n) ==
    IF n = 0 THEN {<<>>}
    ELSE LET shorter == EntriesUpTo(n - 1)
         IN  shorter \cup
             {Append(e, <<k, v>>) :
                 e \in {s \in shorter : Len(s) = n - 1},
                 k \in PropertyNames, v \in ObjectPropertySchemas}

DistinctKeys(entries) ==
    \A i, j \in 1..Len(entries) : entries[i][1] = entries[j][1] => i = j

PropertiesObjects ==
    {[entries |-> e] : e \in {s \in EntriesUpTo(MaxProperties) : DistinctKeys(s)}}

PrimaryKeys == {EmptyString, PropertyNameA, <<"z">>}

PlainObjectSchemas ==
    {[name |-> n, properties |-> ps] @@ pk @@ a @@ e :
        n  \in {EmptyString, ObjectName},
        ps \in PropertiesObjects,
        pk \in Opt("primaryKey", PrimaryKeys),
        a  \in Opt("asymmetric", BOOLEAN),
        e  \in Opt("embedded", {TRUE})}

\* The elements of the deprecated array of properties: a name and the rest.
ArrayElements ==
    {[name |-> n] @@ rest :
        n \in {PropertyNameA, PropertyNameB},
        rest \in {[type |-> TyInt],
                  [type |-> TyInt, indexed |-> FALSE],
                  [type |-> UserTypeName]}}

RECURSIVE ArraysUpTo(_)
ArraysUpTo(n) ==
    IF n = 0 THEN {<<>>}
    ELSE LET shorter == ArraysUpTo(n - 1)
         IN  shorter \cup
             {Append(s, el) : s \in {x \in shorter : Len(x) = n - 1}, el \in ArrayElements}

ArrayObjectSchemas ==
    {[name |-> ObjectName, properties |-> [array |-> arr]] @@ pk :
        arr \in ArraysUpTo(MaxProperties),
        pk  \in Opt("primaryKey", {PropertyNameA})}

\* Classes: without a static schema, or with one of a few definitions.
ClassSchemas ==
    {o \in PlainObjectSchemas \cup ArrayObjectSchemas :
        /\ ~Has(o, "asymmetric") /\ ~Has(o, "embedded")
        /\ IF Has(o.properties, "array") THEN Len(o.properties.array) = 1
           ELSE Len(o.properties.entries) = 1 /\ o.properties.entries[1][1] = PropertyNameA}

Classes == {[prototype |-> "class"] @@ s : s \in Opt("schema", ClassSchemas)}

ObjectSchemaArgs == PlainObjectSchemas \cup ArrayObjectSchemas \cup Classes

\* The definitions the realm schemas are built from.
RealmObjects ==
    {[name |-> ObjectName, properties |-> [entries |-> <<<<PropertyNameA, [shorthand |-> TyInt]>>>>]],
     [name |-> UserTypeName, primaryKey |-> PropertyNameA,
      properties |-> [entries |-> <<<<PropertyNameA, [type |-> TyString]>>>>]],
     [name |-> EmptyString, properties |-> [entries |-> <<>>]],
     [name |-> ObjectName, primaryKey |-> PropertyNameB, properties |-> [entries |-> <<>>]],
     [name |-> ObjectName,
      properties |-> [array |-> <<[name |-> PropertyNameA, type |-> TyInt]>>]],
     [prototype |-> "class"],
     [prototype |-> "class",
      schema |-> [name |-> ObjectName,
                  properties |-> [entries |-> <<<<PropertyNameB, [shorthand |-> UserTypeName]>>>>]]]}

RECURSIVE RealmSchemasUpTo(_)
RealmSchemasUpTo(n) ==
    IF n = 0 THEN {<<>>}
    ELSE LET shorter == RealmSchemasUpTo(n - 1)
         IN  shorter \cup
             {Append(s, o) : s \in {x \in shorter : Len(x) = n - 1}, o \in RealmObjects}

RealmSchemas == RealmSchemasUpTo(MaxObjects)

---------------------------------------------------------------------------
(* The calls                                                               *)

DefaultFlags == [ALLOW_VALUES_ARRAYS |-> FALSE]

Init ==
    /\ call = "none"
    /\ input = NoKeys
    /\ result = NoKeys
    /\ flags = DefaultFlags

\* One call is made per run: the functions are pure, so a second call would
\* only overwrite the record of the first.
CallNormalizePropertySchema ==
    /\ call = "none"
    /\ \E info \in PropertyInfos :
        /\ call' = "normalizePropertySchema"
        /\ input' = info
        /\ result' = normalizePropertySchema(info)
    /\ UNCHANGED flags

NextProperty == CallNormalizePropertySchema

SpecProperty == Init /\ [][NextProperty]_vars

\* The application sets the process-wide flag before it opens a realm.
SetAllowValuesArrays ==
    /\ call = "none"
    /\ flags.ALLOW_VALUES_ARRAYS = FALSE
    /\ flags' = [flags EXCEPT !.ALLOW_VALUES_ARRAYS = TRUE]
    /\ UNCHANGED <<call, input, result>>

CallNormalizeObjectSchema ==
    /\ call = "none"
    /\ \E arg \in ObjectSchemaArgs :
        /\ call' = "normalizeObjectSchema"
        /\ input' = arg
        /\ result' = normalizeObjectSchema(arg)
    /\ UNCHANGED flags

CallNormalizeRealmSchema ==
    /\ call = "none"
    /\ \E realmSchema \in RealmSchemas :
        /\ call' = "normalizeRealmSchema"
        /\ input' = realmSchema
        /\ result' = normalizeRealmSchema(realmSchema)
    /\ UNCHANGED flags

Next ==
    \/ SetAllowValuesArrays
    \/ CallNormalizeObjectSchema
    \/ CallNormalizeRealmSchema

Spec == Init /\ [][Next]_vars

---------------------------------------------------------------------------
(* Properties of normalizeObjectSchema                                     *)

ObjectCall == call = "normalizeObjectSchema"

\* The definition a call is about: the static schema of a class, or the
\* plain definition itself.  A class without a schema declares none.
Declares(arg) == ~isFunction(arg) \/ Has(arg, "schema")
DeclaredSchema(arg) == IF isFunction(arg) THEN arg.schema ELSE arg

\* The property definitions a definition gives under a name.
PropertyDefinitions(def, key) ==
    IF ArrayIsArray(def.properties)
    THEN {Without(def.properties.array[i], "name") :
             i \in {j \in 1..Len(def.properties.array) : def.properties.array[j].name = key}}
    ELSE {def.properties.entries[i][2] :
             i \in {j \in 1..Len(def.properties.entries) : def.properties.entries[j][1] = key}}

\* The canonical properties of an accepted definition that have a name.
CanonicalNamed(schema, key) ==
    {schema.properties.entries[i][2] :
        i \in {j \in 1..Len(schema.properties.entries) : schema.properties.entries[j][1] = key}}

IndexedFalse(d) == ~Has(d, "shorthand") /\ Has(d, "indexed") /\ d.indexed = FALSE

\* C1: when an accepted object definition declares a primaryKey that names
\* one of its properties, the canonical record of that property has
\* indexed = TRUE (shorthand or explicit form, indexed absent or true); when
\* the primary-key property is given in explicit form with indexed: false,
\* the definition is rejected.
C1_PrimaryKeyIsIndexed ==
    (ObjectCall /\ Declares(input)) =>
        LET def == DeclaredSchema(input)
        IN  (Has(def, "primaryKey") /\ PropertyDefinitions(def, def.primaryKey) # {}) =>
                /\ result.ok =>
                       /\ CanonicalNamed(result.value, def.primaryKey) # {}
                       /\ \A c \in CanonicalNamed(result.value, def.primaryKey) : c.indexed = TRUE
                /\ (\A d \in PropertyDefinitions(def, def.primaryKey) : IndexedFalse(d))
                       => ~result.ok

\* An accepted definition whose primary-key property is in explicit form
\* and leaves `indexed` out.
C1_Witness ==
    /\ ObjectCall /\ Declares(input) /\ result.ok
    /\ Has(DeclaredSchema(input), "primaryKey")
    /\ \E d \in PropertyDefinitions(DeclaredSchema(input), DeclaredSchema(input).primaryKey) :
           ~Has(d, "shorthand") /\ ~Has(d, "indexed")
    /\ \E c \in CanonicalNamed(result.value, DeclaredSchema(input).primaryKey) : c.indexed

\* C2: an accepted definition whose canonical result carries a primaryKey
\* has a canonical property of exactly that name, and a definition whose
\* declared primaryKey (any string) names no property of its properties
\* mapping is rejected with an object-level error.
C2_PrimaryKeyNamesAProperty ==
    (ObjectCall /\ Declares(input) /\ ~ArrayIsArray(DeclaredSchema(input).properties)) =>
        LET def == DeclaredSchema(input)
        IN  /\ (result.ok /\ Has(result.value, "primaryKey")) =>
                   CanonicalNamed(result.value, result.value.primaryKey) # {}
            /\ (Has(def, "primaryKey") /\ PropertyDefinitions(def, def.primaryKey) = {}) =>
                   ~result.ok /\ result.error.class = "ObjectSchemaParseError"

\* What holds of the code: the same, for a primaryKey that is not the empty
\* string.
C2_NonEmptyPrimaryKeyNamesAProperty ==
    (ObjectCall /\ Declares(input) /\ ~ArrayIsArray(DeclaredSchema(input).properties)) =>
        LET def == DeclaredSchema(input)
        IN  (Has(def, "primaryKey") /\ Len(def.primaryKey) > 0) =>
                /\ result.ok => CanonicalNamed(result.value, result.value.primaryKey) # {}
                /\ PropertyDefinitions(def, def.primaryKey) = {} =>
                       ~result.ok /\ result.error.class = "ObjectSchemaParseError"

---------------------------------------------------------------------------
(* Properties of normalizePropertySchema                                   *)

PropertyCall == call = "normalizePropertySchema"

ShorthandCall == PropertyCall /\ isUsingShorthand(input)

ExplicitCall == PropertyCall /\ ~isUsingShorthand(input)

\* The optionality the caller wrote: a '?' in the shorthand string, or
\* optional: true in the explicit form.
CallerOptional(info) ==
    IF isUsingShorthand(info)
    THEN \E i \in 1..Len(info.propertySchema.shorthand) : info.propertySchema.shorthand[i] = "?"
    ELSE Has(info.propertySchema, "optional") /\ info.propertySchema.optional = TRUE

\* The two predicates never hold together, over the type strings of the model.
ImplicitRulesExclusive ==
    \A t \in TypeNames \cup ExplicitTypes :
        \A ot \in TypeNames \cup ExplicitObjectTypes \cup {undefined} :
            ~(optionalIsImplicitlyTrue(t, ot) /\ optionalIsImplicitlyFalse(t, ot))

\* C3: optionalIsImplicitlyTrue and optionalIsImplicitlyFalse are never both
\* true of a (type, objectType) pair, and every canonical property has
\* optional = TRUE when the first holds of its pair, FALSE when the second
\* holds, and otherwise the caller's value ('?' or the optional flag, false
\* when neither is given).
C3_ImplicitOptionality ==
    /\ ImplicitRulesExclusive
    /\ (PropertyCall /\ result.ok) =>
           LET v         == result.value
               implTrue  == optionalIsImplicitlyTrue(v.type, Get(v, "objectType"))
               implFalse == optionalIsImplicitlyFalse(v.type, Get(v, "objectType"))
           IN  /\ ~(implTrue /\ implFalse)
               /\ implTrue => v.optional = TRUE
               /\ implFalse => v.optional = FALSE
               /\ (~implTrue /\ ~implFalse) => v.optional = CallerOptional(input)

\* An explicit definition without `optional` whose pair is implicitly
\* optional, accepted with optional = TRUE.
C3_Witness ==
    /\ ExplicitCall /\ result.ok
    /\ ~Has(input.propertySchema, "optional")
    /\ optionalIsImplicitlyTrue(result.value.type, Get(result.value, "objectType"))
    /\ result.value.optional = TRUE

UserDefinedNames == {n \in TypeNames : isUserDefined(n)}

OptionalityMessages == {MsgAlwaysOptional, MsgAlwaysNonOptional, MsgShorthandNonOptional}

\* C4: a caller value that contradicts a forced optionality is an error:
\* explicit optional: false on an implicitly optional pair and explicit
\* optional: true (or a shorthand '?') on an implicitly non-optional pair are
\* rejected.  A definition that leaves the optionality out is not rejected for
\* it: it is accepted exactly when the same definition with the forced value
\* written out is, and the result carries the forced value.
C4_ContradictionIsAnError ==
    /\ ExplicitCall =>
           LET ps        == input.propertySchema
               implTrue  == optionalIsImplicitlyTrue(ps.type, Get(ps, "objectType"))
               implFalse == optionalIsImplicitlyFalse(ps.type, Get(ps, "objectType"))
               written   == [input EXCEPT !.propertySchema = [optional |-> implTrue] @@ ps]
           IN  /\ (implTrue /\ Has(ps, "optional") /\ ps.optional = FALSE) => ~result.ok
               /\ (implFalse /\ Has(ps, "optional") /\ ps.optional = TRUE) => ~result.ok
               /\ ((implTrue \/ implFalse) /\ ~Has(ps, "optional")) =>
                      /\ result.ok => result.value.optional = implTrue
                      /\ ~result.ok => result.error.message \notin OptionalityMessages
                      /\ result.ok = normalizePropertySchema(written).ok
    /\ ShorthandCall =>
           LET s == input.propertySchema.shorthand
           IN  /\ \A u \in UserDefinedNames :
                      /\ s \in {u \o OptionalMarker \o ListSuffix, u \o OptionalMarker \o SetSuffix}
                             => ~result.ok
                      /\ s \in {u \o ListSuffix, u \o SetSuffix}
                             => result.ok /\ result.value.optional = FALSE
                      /\ s \in {u, u \o DictSuffix}
                             => result.ok /\ result.value.optional = TRUE
               /\ s \in {TyMixed, TyMixed \o ListSuffix, TyMixed \o DictSuffix, TyMixed \o SetSuffix}
                      => result.ok /\ result.value.optional = TRUE

\* A shorthand '?' on the element of a list of a user-defined type, rejected.
C4_Witness ==
    /\ ShorthandCall /\ ~result.ok
    /\ input.propertySchema.shorthand = UserTypeName \o OptionalMarker \o ListSuffix
    /\ result.error.message = MsgShorthandNonOptional

\* Whether a string ends with one of the shorthand markers.
EndsWithMarker(str) == endsWith(str, "?") \/ hasCollectionSuffix(str)

SuffixFree(v) ==
    /\ ~EndsWithMarker(v.type)
    /\ Has(v, "objectType") => ~EndsWithMarker(v.objectType)

\* The explicit definitions {type, objectType?, optional?} that can yield the
\* canonical record v: type and objectType are copied to the result as they
\* are written, so they are v's own.
ExplicitTwins(v) ==
    {[type |-> v.type] @@ KeyIf(Has(v, "objectType"), "objectType", Get(v, "objectType")) @@ o :
        o \in Opt("optional", BOOLEAN)}

\* A shorthand string built from a type name followed by markers.
BuiltFromTypeName(str) ==
    \E b \in TypeNames : Len(str) >= Len(b) /\ SubSeq(str, 1, Len(b)) = b

\* C5: for every accepted shorthand string there is an explicit definition
\* {type, objectType?, optional?} that is accepted with the same object name,
\* property name and primary-key flag and yields the identical canonical
\* property.
C5_ShorthandHasExplicitTwin ==
    (ShorthandCall /\ result.ok /\ BuiltFromTypeName(input.propertySchema.shorthand)) =>
        \E twin \in ExplicitTwins(result.value) :
            normalizePropertySchema([input EXCEPT !.propertySchema = twin]) = result

\* What holds of the code: the same, for the accepted shorthands whose
\* canonical record is suffix-free.
C5_SuffixFreeShorthandHasExplicitTwin ==
    (ShorthandCall /\ result.ok /\ SuffixFree(result.value)) =>
        \E twin \in ExplicitTwins(result.value) :
            normalizePropertySchema([input EXCEPT !.propertySchema = twin]) = result

\* C7: in every canonical property, from a shorthand string or an explicit
\* definition, neither type nor objectType ends with '?', '[]', '{}' or '<>'.
C7_CanonicalIsSuffixFree ==
    (PropertyCall /\ result.ok) => SuffixFree(result.value)

\* What holds of the code: the explicit path is suffix-free, and so is the
\* shorthand path unless '?' is written twice in a row.
DoubleOptional(str) ==
    \E i \in 1..(Len(str) - 1) : str[i] = "?" /\ str[i + 1] = "?"

C7_SuffixFreeUnlessDoubleOptional ==
    (PropertyCall /\ result.ok) =>
        \/ SuffixFree(result.value)
        \/ ShorthandCall /\ DoubleOptional(input.propertySchema.shorthand)

CollectionSuffixes == {ListSuffix, DictSuffix, SetSuffix}

\* A collection suffix immediately preceded by another collection suffix.
HasNestedSuffix(str) ==
    \E i \in 1..(Len(str) - 3) :
        /\ SubSeq(str, i, i + 1) \in CollectionSuffixes
        /\ SubSeq(str, i + 2, i + 3) \in CollectionSuffixes

\* C8: every shorthand string (a type name followed by markers) in which a
\* collection suffix is immediately preceded by another collection suffix is
\* rejected.
C8_NestedCollectionsRejected ==
    (ShorthandCall /\ BuiltFromTypeName(input.propertySchema.shorthand)
       /\ HasNestedSuffix(input.propertySchema.shorthand)) => ~result.ok

\* What holds of the code: such a string is rejected unless '?' is written
\* twice in a row after the suffixes, and always when it ends with the two
\* suffixes.
C8_NestedRejectedUnlessDoubleOptional ==
    ShorthandCall =>
        LET s == input.propertySchema.shorthand
        IN  /\ (HasNestedSuffix(s) /\ ~DoubleOptional(s)) => ~result.ok
            /\ (Len(s) >= 4 /\ HasNestedSuffix(SubSeq(s, Len(s) - 3, Len(s)))) =>
                   ~result.ok /\ result.error.message = MsgNested

\* A '?' that follows a collection suffix.
HasOptionalAfterSuffix(str) ==
    \E i \in 1..(Len(str) - 2) :
        SubSeq(str, i, i + 1) \in CollectionSuffixes /\ str[i + 2] = "?"

\* What C9 says of P + '?' + S and P + S, for a primitive P and a suffix S.
ElementOptionality ==
    ShorthandCall =>
        \A P \in PRIMITIVE_TYPES : \A S \in CollectionSuffixes :
            /\ input.propertySchema.shorthand = P \o OptionalMarker \o S =>
                   /\ result.ok
                   /\ result.value.type = COLLECTION_SHORTHAND_TO_NAME[S]
                   /\ Get(result.value, "objectType") = P
                   /\ result.value.optional = TRUE
            /\ input.propertySchema.shorthand = P \o S =>
                   /\ result.ok
                   /\ result.value.optional = (P = TyMixed)

\* C9: a shorthand in which '?' follows a collection suffix is rejected;
\* P + '?' + S is accepted with type = the collection of S, objectType = P and
\* optional = TRUE; P + S yields optional = FALSE unless P is 'mixed'.
C9_OptionalMarksTheElement ==
    /\ (ShorthandCall /\ BuiltFromTypeName(input.propertySchema.shorthand)
          /\ HasOptionalAfterSuffix(input.propertySchema.shorthand)) => ~result.ok
    /\ ElementOptionality

\* What holds of the code: the same, unless '?' is written twice in a row.
C9_OptionalMarksTheElementUnlessDoubled ==
    /\ (ShorthandCall /\ HasOptionalAfterSuffix(input.propertySchema.shorthand)
          /\ ~DoubleOptional(input.propertySchema.shorthand)) => ~result.ok
    /\ ElementOptionality

\* C10: every canonical property of either path has a type that is a
\* primitive keyword, a collection keyword, 'object' or 'linkingObjects'; a
\* primitive type has no objectType; a collection has an objectType that is
\* primitive or user-defined; 'object' and 'linkingObjects' have a
\* user-defined objectType; and `property` is present, and then non-empty,
\* exactly when the type is 'linkingObjects'.
C10_CategoryRules ==
    (PropertyCall /\ result.ok) =>
        LET v == result.value
        IN  /\ v.type \in PRIMITIVE_TYPES \cup COLLECTION_TYPES \cup {TyObject, TyLinkingObjects}
            /\ v.type \in PRIMITIVE_TYPES => ~Has(v, "objectType")
            /\ v.type \in COLLECTION_TYPES =>
                   /\ Has(v, "objectType")
                   /\ isPrimitive(v.objectType) \/ isUserDefined(v.objectType)
            /\ v.type \in {TyObject, TyLinkingObjects} =>
                   Has(v, "objectType") /\ isUserDefined(v.objectType)
            /\ Has(v, "property") <=> v.type = TyLinkingObjects
            /\ Has(v, "property") => Len(v.property) > 0

\* An accepted linkingObjects property, which carries its `property`.
C10_Witness ==
    /\ ExplicitCall /\ result.ok
    /\ result.value.type = TyLinkingObjects
    /\ Get(result.value, "property") = OwnerName

---------------------------------------------------------------------------
(* Idempotence                                                             *)

\* A canonical object schema turned back into a plain definition: the same
\* name, primaryKey, asymmetric and embedded, and each canonical property
\* without its `name` as the explicit definition of the property.
RawFromCanonical(schema) ==
    [name       |-> schema.name,
     asymmetric |-> schema.asymmetric,
     embedded   |-> schema.embedded,
     properties |-> [entries |->
         [i \in 1..Len(schema.properties.entries) |->
             <<schema.properties.entries[i][1],
               Without(schema.properties.entries[i][2], "name")>>]]]
    @@ KeyIf(Has(schema, "primaryKey"), "primaryKey", Get(schema, "primaryKey"))

PlainCall == ObjectCall /\ ~isFunction(input) /\ ~ArrayIsArray(input.properties)

\* C6: the canonical result of an accepted plain definition, fed back as an
\* explicit-form definition, is accepted and yields the identical canonical
\* object schema.
C6_NormalizationIsIdempotent ==
    (PlainCall /\ result.ok) => normalizeObjectSchema(RawFromCanonical(result.value)) = result

\* What holds of the code: the same, when every canonical property of the
\* result is suffix-free.
C6_IdempotentOnSuffixFree ==
    (PlainCall /\ result.ok
       /\ \A i \in 1..Len(result.value.properties.entries) :
              SuffixFree(result.value.properties.entries[i][2]))
        => normalizeObjectSchema(RawFromCanonical(result.value)) = result

---------------------------------------------------------------------------
(* The array of properties                                                 *)

ArrayCall == ObjectCall /\ Declares(input) /\ ArrayIsArray(DeclaredSchema(input).properties)

\* The <<name, rest>> pair of an element of an array of properties.
NameRest(el) == <<el.name, Without(el, "name")>>

\* The properties mappings that send each entry's name to the rest of that
\* entry: every element of the array is an entry of the mapping, every entry
\* comes from an element, and the keys are written in the order in which the
\* array first names them.  An array that gives one name two different rests
\* has no such mapping.
FirstIndex(array, key) ==
    CHOOSE i \in 1..Len(array) :
        array[i].name = key /\ \A j \in 1..(i - 1) : array[j].name # key

MappingsOf(array) ==
    LET Pairs == {NameRest(array[i]) : i \in 1..Len(array)}
        Candidates == UNION {[1..n -> Pairs] : n \in 0..Len(array)}
    IN  {[entries |-> m] : m \in
            {c \in Candidates :
                /\ DistinctKeys(c)
                /\ \A i \in 1..Len(array) : \E j \in 1..Len(c) : c[j] = NameRest(array[i])
                /\ \A j, k \in 1..Len(c) :
                       j < k => FirstIndex(array, c[j][1]) < FirstIndex(array, c[k][1])}}

\* The result of a call without the constructor a class adds to it.
StripCtor(r) == IF r.ok /\ Has(r.value, "ctor") THEN Return(Without(r.value, "ctor")) ELSE r

\* C11: with ALLOW_VALUES_ARRAYS disabled, every definition whose properties
\* is an array is rejected, whatever else it contains; with the flag enabled,
\* the call returns what normalizeObjectSchema returns (the same canonical
\* schema or the same error) for the definition whose properties mapping
\* sends each entry's name to the rest of that entry.
C11_ArrayGovernedByFlag ==
    ArrayCall =>
        LET def == DeclaredSchema(input)
        IN  /\ ~flags.ALLOW_VALUES_ARRAYS => ~result.ok
            /\ flags.ALLOW_VALUES_ARRAYS =>
                   \A m \in MappingsOf(def.properties.array) :
                       StripCtor(result) = normalizeObjectSchema([def EXCEPT !.properties = m])

\* An array of two properties of different names, accepted under the flag as
\* its mapping is.
C11_Witness ==
    /\ ArrayCall /\ ~isFunction(input) /\ flags.ALLOW_VALUES_ARRAYS /\ result.ok
    /\ Len(input.properties.array) = 2
    /\ input.properties.array[1].name # input.properties.array[2].name
    /\ MappingsOf(input.properties.array) # {}
    /\ Len(result.value.properties.entries) = 2

\* An array rejected because the flag is disabled.
C11_RejectedWitness ==
    /\ ArrayCall /\ ~flags.ALLOW_VALUES_ARRAYS /\ ~result.ok
    /\ result.error.message = MsgArrayProperties

---------------------------------------------------------------------------
(* Properties of normalizeRealmSchema                                      *)

RealmCall == call = "normalizeRealmSchema"

\* The outcome of each definition of a realm schema on its own.
EachOutcome(realmSchema) ==
    [i \in 1..Len(realmSchema) |-> normalizeObjectSchema(realmSchema[i])]

Rejected(outcomes) == {i \in 1..Len(outcomes) : ~outcomes[i].ok}

FirstRejected(outcomes) ==
    CHOOSE i \in Rejected(outcomes) : \A j \in Rejected(outcomes) : i <= j

\* C12: normalizeRealmSchema is order-preserving and all-or-nothing: when
\* every definition of the input is accepted, the output has the input's
\* length and its i-th element is the canonical schema of the i-th
\* definition; when a definition is rejected, no list is returned and the one
\* error surfaced is that of the first rejected definition in input order.
C12_OrderPreservingAllOrNothing ==
    RealmCall =>
        LET each == EachOutcome(input)
        IN  IF Rejected(each) = {}
            THEN /\ result.ok
                 /\ Len(result.value) = Len(input)
                 /\ \A i \in 1..Len(input) : result.value[i] = each[i].value
            ELSE /\ ~result.ok
                 /\ ~Has(result, "value")
                 /\ result.error = each[FirstRejected(each)].error

\* A realm schema whose two definitions are rejected for different reasons:
\* the error of the first is the one surfaced.
C12_Witness ==
    /\ RealmCall /\ ~result.ok /\ Len(input) = 2
    /\ Rejected(EachOutcome(input)) = {1, 2}
    /\ EachOutcome(input)[1].error # EachOutcome(input)[2].error
    /\ result.error = EachOutcome(input)[1].error

\* A realm schema of two accepted definitions, returned in input order.
C12_AcceptedWitness ==
    /\ RealmCall /\ result.ok /\ Len(input) = 2
    /\ result.value[1] # result.value[2]
    /\ result.value = <<EachOutcome(input)[1].value, EachOutcome(input)[2].value>>

---------------------------------------------------------------------------
(* What the errors carry                                                   *)

\* An error that carries the name of the object definition that was rejected.
NamesObject(error, def) == Has(error, "objectName") /\ error.objectName = def.name

\* An error of a property that carries the name of the owning object and of
\* a property of the definition that is rejected, on its own, with this error.
NamesProperty(error, def) ==
    /\ NamesObject(error, def)
    /\ Has(error, "propertyName")
    /\ \E d \in PropertyDefinitions(def, error.propertyName) :
           normalizePropertySchema(
               [objectName     |-> def.name,
                propertyName   |-> error.propertyName,
                propertySchema |-> d,
                isPrimaryKey   |-> (Get(def, "primaryKey") = error.propertyName)]) = Throw(error)

PropertyErrorClasses == {"PropertySchemaParseError"}

\* What C13 asks of a rejected call.
ErrorNamesTheInput ==
    /\ (ObjectCall /\ ~result.ok) =>
           /\ Has(result.error, "objectName")
           /\ Declares(input) =>
                  /\ NamesObject(result.error, DeclaredSchema(input))
                  /\ result.error.class \in PropertyErrorClasses =>
                         NamesProperty(result.error, DeclaredSchema(input))
    /\ (PropertyCall /\ ~result.ok) =>
           /\ Has(result.error, "objectName") /\ result.error.objectName = input.objectName
           /\ Has(result.error, "propertyName") /\ result.error.propertyName = input.propertyName

\* C13: every error of normalizeObjectSchema or normalizePropertySchema
\* names the offending input: a rejected object definition's error carries
\* the object's name, and a rejection caused by a property carries the owning
\* object's name and the property's name, on every rejection path (the class
\* without a static schema, the empty object name and the rejected array of
\* properties among them).
C13_ErrorsNameTheInput == ErrorNamesTheInput

\* The two rejections that throw before the definition's name is read.
NoStaticSchema == ObjectCall /\ ~Declares(input)

ArrayRejected == ArrayCall /\ ~flags.ALLOW_VALUES_ARRAYS

\* What holds of the code: every other rejection names its input, and these
\* two carry no name at all.
C13_NamedExceptClassAndArray ==
    /\ ~(NoStaticSchema \/ ArrayRejected) => ErrorNamesTheInput
    /\ (NoStaticSchema \/ ArrayRejected) =>
           /\ ~result.ok
           /\ ~Has(result.error, "objectName") /\ ~Has(result.error, "propertyName")

---------------------------------------------------------------------------
(* Evaluation order                                                        *)

\* A rule is <<violated, the outcome of its violation>>; the rules of a list
\* are each judged on their own, and the first violated one of the list is
\* the earliest.
Violated(rules) == {i \in 1..Len(rules) : rules[i][1]}

Earliest(rules) == rules[CHOOSE i \in Violated(rules) : \A j \in Violated(rules) : i <= j][2]

\* The rules of an explicit-form property, in the order C14 gives them.
ExplicitRules(info) ==
    LET ps         == info.propertySchema
        type       == ps.type
        objectType == Get(ps, "objectType")
        property   == Get(ps, "property")
        declaredOptional(b) == Has(ps, "optional") /\ ps.optional = b
    IN  << <<Len(type) = 0, propError(info, MsgTypeEmpty)>>,
           <<EndsWithMarker(type), propError(info, MsgShorthandInObject)>>,
           <<Has(ps, "objectType") /\ EndsWithMarker(objectType),
             propError(info, MsgShorthandInObject)>>,
           <<categoryError(type, objectType, property) # "",
             propError(info, categoryError(type, objectType, property))>>,
           <<type # TyLinkingObjects /\ Has(ps, "property"),
             propError(info, MsgPropertyNotAllowed)>>,
           <<optionalIsImplicitlyTrue(type, objectType) /\ declaredOptional(FALSE),
             propError(info, MsgAlwaysOptional)>>,
           <<optionalIsImplicitlyFalse(type, objectType) /\ declaredOptional(TRUE),
             propError(info, MsgAlwaysNonOptional)>>,
           <<Has(info, "isPrimaryKey") /\ info.isPrimaryKey
               /\ Has(ps, "indexed") /\ ps.indexed = FALSE,
             propError(info, MsgPrimaryKeyIndexed)>> >>

\* The outcome of the i-th property of a plain definition on its own.
PropertyOutcome(def, i) ==
    normalizePropertySchema(
        [objectName     |-> def.name,
         propertyName   |-> def.properties.entries[i][1],
         propertySchema |-> def.properties.entries[i][2],
         isPrimaryKey   |-> (Get(def, "primaryKey") = def.properties.entries[i][1])])

\* The rules of a plain definition in the order C14 gives them: the three of
\* the object, then one per property in mapping order.  declared(pk) says
\* which primaryKey values count as a declared primary key.
ObjectRules(def, declared(_)) ==
    << <<Len(def.name) = 0, objectError(EmptyString, MsgNameMissing)>>,
       <<Has(def, "primaryKey") /\ declared(def.primaryKey)
           /\ PropertyDefinitions(def, def.primaryKey) = {},
         objectError(def.name, MsgPrimaryKeyMissing)>>,
       <<Has(def, "asymmetric") /\ def.asymmetric /\ Has(def, "embedded") /\ def.embedded,
         objectError(def.name, MsgAsymmetricEmbedded)>> >>
    \o [i \in 1..Len(def.properties.entries) |->
           <<~PropertyOutcome(def, i).ok, PropertyOutcome(def, i)>>]

AnyString(str) == TRUE

NonEmptyString(str) == Len(str) > 0

\* Fail-fast over the rules of the object and, for an explicit-form property,
\* over the rules of the property, asked of the inputs that violate at least
\* `several` rules.
FailFast(declared(_), several) ==
    /\ PlainCall =>
           (Cardinality(Violated(ObjectRules(input, declared))) >= several
               => result = Earliest(ObjectRules(input, declared)))
    /\ ExplicitCall =>
           (Cardinality(Violated(ExplicitRules(input))) >= several
               => result = Earliest(ExplicitRules(input)))

\* C14: normalization is fail-fast in a fixed order: when a definition
\* violates several rules, the one error surfaced is that of the earliest in
\* the order name non-empty, primary-key existence, asymmetric/embedded
\* exclusivity, then the properties in mapping order; and within an
\* explicit-form property, type non-empty, shorthand in type, shorthand in
\* objectType, the category rule of the type, property only with
\* linkingObjects, optionality contradiction, primary-key indexed: false.
C14_FailFastInOrder == FailFast(AnyString, 2)

\* What holds of the code: the same, for one violated rule or several, with
\* the primary-key existence rule asked only of a primaryKey that is not the
\* empty string.
C14_FailFastForNonEmptyPrimaryKey == FailFast(NonEmptyString, 1)

\* A plain definition that breaks a rule of the object and has a rejected
\* property: the object's error is the one surfaced.
C14_SeveralRulesBroken ==
    /\ PlainCall /\ ~result.ok
    /\ \E i, j \in Violated(ObjectRules(input, NonEmptyString)) : i <= 3 /\ j > 3
    /\ result.error.class = "ObjectSchemaParseError"

===========================================================================
